---- MODULE Spec2Model ----
(***************************************************************************)
(* Model of pdf_requirements_parser.py (class PDFRequirementsParser).      *)
(*                                                                         *)
(* Text is a sequence of one-character strings.  The three glyphs that are *)
(* not ASCII are written as the tokens "BULLET" (U+2022), "WBULLET"        *)
(* (U+25E6) and "SQUARE" (U+25AA); each stands for ONE character.          *)
(* Python indices (i, j, page_num of range()) keep their 0-based values;   *)
(* a Python s[k] is the TLA+ s[k + 1].                                     *)
(***************************************************************************)
EXTENDS Integers, Sequences, FiniteSets, TLC

VARIABLES
    pc,               \* position of the running method
    pdf,              \* the document: per page its native text and annotations
    OCR_AVAILABLE,    \* module-level flag set by the import of the OCR libraries
    page_num,         \* loop variable of the running per-page loop (1-based)
    requirements,     \* self.requirements: page number -> list of blocks
    comments,         \* self.comments: page number -> list of comment records
    stderr,           \* the messages written to sys.stderr, in order
    text,             \* argument of the function applied; the page text in the line scanner
    result,           \* return value of the function applied
    lines,            \* _extract_inline_comments: lines of the page being scanned
    i,                \* outer scan index (0-based)
    j,                \* lookahead index (0-based)
    author_tag,       \* group(1) of the marker match
    comment_text,     \* text accumulated for the current marker
    inline_comments,  \* records emitted for the page so far
    trace             \* scan history: <<kind, index>> per examined / appended line

vars == <<pc, pdf, OCR_AVAILABLE, page_num, requirements, comments, stderr,
          text, result, lines, i, j, author_tag, comment_text, inline_comments,
          trace>>

(***************************************************************************)
(* Characters and string primitives (Python str / re semantics).           *)
(***************************************************************************)
NL == "\n"
TAB == "\t"

\* str.isspace() characters that str.strip() and re's \s remove
Whitespace == {" ", "\t", "\n", "\r", "\f"}

UpperChars == {"A","B","C","D","E","F","G","H","I","J","K","L","M",
               "N","O","P","Q","R","S","T","U","V","W","X","Y","Z"}

LowerChars == {"a","b","c","d","e","f","g","h","i","j","k","l","m",
               "n","o","p","q","r","s","t","u","v","w","x","y","z"}

DigitChars == {"0","1","2","3","4","5","6","7","8","9"}

Min(S) == CHOOSE x \in S : \A y \in S : x <= y

Max(S) == CHOOSE x \in S : \A y \in S : x >= y

\* s[p:].startswith(lit), p 1-based
StartsWithAt(s, p, lit) ==
    /\ p + Len(lit) - 1 <= Len(s)
    /\ \A k \in 1..Len(lit) : s[p + k - 1] = lit[k]

\* str.startswith(lit)
StartsWith(s, lit) == StartsWithAt(s, 1, lit)

\* str.startswith(tuple of literals)
StartsWithAny(s, lits) == \E lit \in lits : StartsWith(s, lit)

\* str.endswith(lit)
EndsWith(s, lit) ==
    /\ Len(lit) <= Len(s)
    /\ \A k \in 1..Len(lit) : s[Len(s) - Len(lit) + k] = lit[k]

\* lit in s
Contains(s, lit) == \E p \in 1..Len(s) : StartsWithAt(s, p, lit)

\* first index q >= p with s[q] in S, or 0
FirstIn(s, p, S) ==
    LET Q == {q \in p..Len(s) : s[q] \in S}
    IN  IF Q = {} THEN 0 ELSE Min(Q)

\* first index q >= p with s[q] not in S, or Len(s) + 1
FirstNotIn(s, p, S) ==
    LET Q == {q \in p..Len(s) : s[q] \notin S}
    IN  IF Q = {} THEN Len(s) + 1 ELSE Min(Q)

\* str.strip()
Strip(s) ==
    LET K == {q \in 1..Len(s) : s[q] \notin Whitespace}
    IN  IF K = {} THEN <<>> ELSE SubSeq(s, Min(K), Max(K))

\* str.count(c) for a one-character c
Count(s, c) == Cardinality({q \in 1..Len(s) : s[q] = c})

RECURSIVE SplitFrom(_, _, _)
\* the pieces of s[p:] cut at every non-overlapping occurrence of sep
SplitFrom(s, p, sep) ==
    LET Q == {q \in p..Len(s) : StartsWithAt(s, q, sep)}
    IN  IF Q = {} THEN <<SubSeq(s, p, Len(s))>>
        ELSE <<SubSeq(s, p, Min(Q) - 1)>> \o SplitFrom(s, Min(Q) + Len(sep), sep)

\* str.split(sep)
Split(s, sep) == SplitFrom(s, 1, sep)

RECURSIVE JoinWords(_, _)
\* ' '.join(s.split()): whitespace runs collapsed to one space, ends trimmed
JoinWords(s, p) ==
    LET a == FirstNotIn(s, p, Whitespace)
    IN  IF a > Len(s) THEN <<>>
        ELSE LET w == FirstIn(s, a, Whitespace)
                 e == IF w = 0 THEN Len(s) ELSE w - 1
                 rest == JoinWords(s, e + 1)
             IN  SubSeq(s, a, e) \o (IF rest = <<>> THEN <<>> ELSE <<" ">> \o rest)

CollapseWhitespace(s) == JoinWords(s, 1)

(***************************************************************************)
(* The marker pattern.                                                     *)
(***************************************************************************)
\* the literal 'Commented \[' of the three regular expressions
CommentedLit == <<"C","o","m","m","e","n","t","e","d"," ","[">>

\* r'Commented \[[^\]]+\]' matched at p: index of the closing bracket, or 0.
\* [^\]]+ cannot cross a ']', so the identifier ends at the first ']' and
\* must hold at least one character.
TagEnd(s, p) ==
    IF ~StartsWithAt(s, p, CommentedLit) THEN 0
    ELSE LET q == FirstIn(s, p + Len(CommentedLit), {"]"})
         IN  IF q > p + Len(CommentedLit) THEN q ELSE 0

\* r'Commented \[[^\]]+\]:[^\n]+' matched at p: index of the last character
\* matched (greedy to the end of the line), or 0.
ColonTagEnd(s, p) ==
    LET q == TagEnd(s, p)
    IN  IF q = 0 \/ q + 2 > Len(s) THEN 0
        ELSE IF s[q + 1] # ":" \/ s[q + 2] = NL THEN 0
        ELSE LET n == FirstIn(s, q + 2, {NL})
             IN  IF n = 0 THEN Len(s) ELSE n - 1

\* some substring of s matches the marker pattern 'Commented [<identifier>]'
HasMarker(s) == \E p \in 1..Len(s) : TagEnd(s, p) > 0

(***************************************************************************)
(* _remove_inline_comments                                                 *)
(***************************************************************************)
RECURSIVE SubColonTags(_, _)
\* re.sub(r'Commented \[[^\]]+\]:[^\n]+', '', text): one left-to-right pass
SubColonTags(s, p) ==
    IF p > Len(s) THEN <<>>
    ELSE LET e == ColonTagEnd(s, p)
         IN  IF e > 0 THEN SubColonTags(s, e + 1)
             ELSE <<s[p]>> \o SubColonTags(s, p + 1)

RECURSIVE SubTags(_, _)
\* re.sub(r'Commented \[[^\]]+\]', '', cleaned): one left-to-right pass
SubTags(s, p) ==
    IF p > Len(s) THEN <<>>
    ELSE LET e == TagEnd(s, p)
         IN  IF e > 0 THEN SubTags(s, e + 1)
             ELSE <<s[p]>> \o SubTags(s, p + 1)

RECURSIVE SubNewlines(_, _)
\* re.sub(r'\n{3,}', '\n\n', cleaned)
SubNewlines(s, p) ==
    IF p > Len(s) THEN <<>>
    ELSE IF s[p] # NL THEN <<s[p]>> \o SubNewlines(s, p + 1)
    ELSE LET e == FirstNotIn(s, p, {NL})
             run == e - p
         IN  (IF run >= 3 THEN <<NL, NL>> ELSE SubSeq(s, p, e - 1))
             \o SubNewlines(s, e)

_remove_inline_comments(t) ==
    Strip(SubNewlines(SubTags(SubColonTags(t, 1), 1), 1))

(***************************************************************************)
(* _split_into_sections                                                    *)
(***************************************************************************)
BULLET == "BULLET"
WBULLET == "WBULLET"
SQUARE == "SQUARE"

\* a tier is kept only when it yields more than this many sections
FewSections == 2

\* {0,80} of heading_pattern: characters allowed after the leading capital
HeadingTail == 80

\* '^' under re.MULTILINE: start of text or just after a newline
LineStart(s, p) == p = 1 \/ s[p - 1] = NL

\* '$' under re.MULTILINE, seen from p: index just past the end of p's line
LineEnd(s, p) ==
    LET n == FirstIn(s, p, {NL})
    IN  IF n = 0 THEN Len(s) + 1 ELSE n

\* positions where (?=^BULLET\s) matches
BulletCuts(s) ==
    {p \in 1..Len(s) : /\ LineStart(s, p)
                       /\ s[p] = BULLET
                       /\ p + 1 <= Len(s)
                       /\ s[p + 1] \in Whitespace}

\* heading_pattern with {0,81}: one more character allowed after the capital
HeadingCutsLoose(s) ==
    {p \in 1..Len(s) : /\ LineStart(s, p)
                       /\ s[p] \in UpperChars
                       /\ LineEnd(s, p) - (p + 1) <= HeadingTail + 1}

\* positions where (?=^[A-Z][^\n]{0,80}$) matches
HeadingCuts(s) ==
    {p \in 1..Len(s) : /\ LineStart(s, p)
                       /\ s[p] \in UpperChars
                       /\ LineEnd(s, p) - (p + 1) <= HeadingTail}

RECURSIVE CutFrom(_, _, _)
CutFrom(s, a, P) ==
    LET Q == {q \in P : q > a}
    IN  IF Q = {} THEN <<SubSeq(s, a, Len(s))>>
        ELSE <<SubSeq(s, a, Min(Q) - 1)>> \o CutFrom(s, Min(Q), P)

\* re.split on a zero-width pattern matching at the positions P
\* (a match at the first character leaves an empty first piece)
SplitBefore(s, P) ==
    IF 1 \in P THEN <<<<>>>> \o CutFrom(s, 1, P) ELSE CutFrom(s, 1, P)

\* [s for s in pieces if s.strip()]: the filter without the trim
KeepNonEmpty(pieces) == SelectSeq(pieces, LAMBDA x : Strip(x) # <<>>)

\* [s.strip() for s in pieces if s.strip()]
StripNonEmpty(pieces) ==
    LET stripped == [k \in 1..Len(pieces) |-> Strip(pieces[k])]
    IN  SelectSeq(stripped, LAMBDA x : x # <<>>)

\* Strategy 1: split by double newlines
Tier1(t) == StripNonEmpty(Split(t, <<NL, NL>>))

\* Strategy 2: split by bullet points
Tier2(t) == StripNonEmpty(SplitBefore(t, BulletCuts(t)))

\* Strategy 3: split by major headings
Tier3(t) == StripNonEmpty(SplitBefore(t, HeadingCuts(t)))

_split_into_sections(t) ==
    LET s1 == Tier1(t)
        s2 == IF Len(s1) <= FewSections THEN Tier2(t) ELSE s1
        s3 == IF Len(s2) <= FewSections THEN Tier3(t) ELSE s2
    IN  IF s3 # <<>> THEN s3 ELSE <<t>>

(***************************************************************************)
(* _classify_content                                                       *)
(***************************************************************************)
HeadingMaxLen == 100

DotWindow == 5

PipeLimit == 3

FieldKeywords == { <<"F","i","e","l","d"," ","N","a","m","e">>,
                   <<"F","i","e","l","d"," ","L","i","s","t">>,
                   <<"D","e","s","c","r","i","p","t","i","o","n">>,
                   <<"D","a","t","a"," ","T","y","p","e">> }

ListGlyphs == { <<BULLET>>, <<"-">>, <<"*">>, <<WBULLET>>, <<SQUARE>> }

\* str.isupper(): at least one cased character and no lower-case one
IsUpper(s) ==
    /\ \E k \in 1..Len(s) : s[k] \in UpperChars
    /\ \A k \in 1..Len(s) : s[k] \notin LowerChars

\* [l for l in text.split('\n') if l.strip()]
NonBlankLines(t) == SelectSeq(Split(t, <<NL>>), LAMBDA l : Strip(l) # <<>>)

IsHeading(first_line) ==
    /\ Len(first_line) < HeadingMaxLen
    /\ (IsUpper(first_line) \/ EndsWith(first_line, <<":">>))

IsFieldList(first_line) == \E kw \in FieldKeywords : Contains(first_line, kw)

IsListItem(first_line) ==
    \/ StartsWithAny(first_line, ListGlyphs)
    \/ /\ Len(first_line) > 0
       /\ first_line[1] \in DigitChars
       /\ \E k \in 1..DotWindow : k <= Len(first_line) /\ first_line[k] = "."

IsTable(t) == (\E k \in 1..Len(t) : t[k] = TAB) \/ Count(t, "|") > PipeLimit

\* the cascade with the table rule tested before the heading rule
ClassifyTableFirst(t) ==
    LET ls == NonBlankLines(t)
    IN  IF ls = <<>> THEN "paragraph"
        ELSE LET first_line == Strip(ls[1])
             IN  IF IsTable(t) THEN "table"
                 ELSE IF IsHeading(first_line) THEN "heading"
                 ELSE IF IsFieldList(first_line) THEN "field_list"
                 ELSE IF IsListItem(first_line) THEN "list_item"
                 ELSE "paragraph"

_classify_content(t) ==
    LET ls == NonBlankLines(t)
    IN  IF ls = <<>> THEN "paragraph"
        ELSE LET first_line == Strip(ls[1])
             IN  IF IsHeading(first_line) THEN "heading"
                 ELSE IF IsFieldList(first_line) THEN "field_list"
                 ELSE IF IsListItem(first_line) THEN "list_item"
                 ELSE IF IsTable(t) THEN "table"
                 ELSE "paragraph"

(***************************************************************************)
(* _extract_inline_comments: the line scanner                              *)
(***************************************************************************)
\* a comment shorter than this is dropped
MinCommentLen == 10

\* next_line.startswith(('BULLET', 'o ', 'SQUARE', 'Field Name', 'Name ', 'Is Active'))
StructuralPrefixes == { <<BULLET>>,
                        <<"o"," ">>,
                        <<SQUARE>>,
                        <<"F","i","e","l","d"," ","N","a","m","e">>,
                        <<"N","a","m","e"," ">>,
                        <<"I","s"," ","A","c","t","i","v","e">> }

\* lines[j+1].strip().startswith(('BULLET', 'Field'))
AfterBlankPrefixes == { <<BULLET>>, <<"F","i","e","l","d">> }

\* next_line.startswith(('User Story', 'Campaign Details'))
RequirementPrefixes == { <<"U","s","e","r"," ","S","t","o","r","y">>,
                         <<"C","a","m","p","a","i","g","n"," ",
                           "D","e","t","a","i","l","s">> }

\* re.match(r'Commented \[([^\]]+)\]:\s*(.*)', line) succeeds
IsMarkerLine(line) ==
    LET q == TagEnd(line, 1)
    IN  q > 0 /\ q + 1 <= Len(line) /\ line[q + 1] = ":"

\* comment_match.group(1)
MarkerAuthor(line) == SubSeq(line, Len(CommentedLit) + 1, TagEnd(line, 1) - 1)

\* comment_match.group(2).strip()
MarkerText(line) == Strip(SubSeq(line, TagEnd(line, 1) + 2, Len(line)))

\* the stop test that knows only the next marker, not the structural prefixes
StopsAtMarkerOnly(ls, jj) == StartsWith(Strip(ls[jj + 1]), CommentedLit)

\* the three stop conditions of the lookahead, for lines[jj] (jj 0-based)
StopsLookahead(ls, jj) ==
    LET next_line == Strip(ls[jj + 1])
    IN  \/ StartsWith(next_line, CommentedLit)
        \/ StartsWithAny(next_line, StructuralPrefixes)
        \/ /\ next_line = <<>>
           /\ jj + 1 < Len(ls)
           /\ StartsWithAny(Strip(ls[jj + 2]), AfterBlankPrefixes)

\* next_line and not next_line.startswith(('User Story', 'Campaign Details'))
IsContinuation(next_line) ==
    next_line # <<>> /\ ~StartsWithAny(next_line, RequirementPrefixes)

\* the length filter off by one: len(comment_text) >= 9
LongEnoughOffByOne(ct) == Len(ct) >= MinCommentLen - 1

\* len(comment_text) >= 10
LongEnough(ct) == Len(ct) >= MinCommentLen

\* Python None: a one-token sequence, equal to no string
None == <<"None">>

InlineCommentType == <<"I","n","l","i","n","e","C","o","m","m","e","n","t">>

WordCommentSubject == <<"W","o","r","d"," ","C","o","m","m","e","n","t">>

InlineRecord(id, page, author, ct) ==
    [id |-> id, page |-> page, type |-> InlineCommentType, author |-> author,
     text |-> ct, subject |-> WordCommentSubject, color |-> None]

RECURSIVE LookaheadFrom(_, _, _)
\* the inner while loop run to its end: <<j, comment_text>>
LookaheadFrom(ls, jj, ct) ==
    IF jj >= Len(ls) THEN <<jj, ct>>
    ELSE IF StopsLookahead(ls, jj) THEN <<jj, ct>>
    ELSE IF IsContinuation(Strip(ls[jj + 1]))
         THEN LookaheadFrom(ls, jj + 1, ct \o <<" ">> \o Strip(ls[jj + 1]))
    ELSE <<jj, ct>>

RECURSIVE ScanFrom(_, _, _, _)
\* the outer while loop run to its end: the page's inline_comments
ScanFrom(ls, ii, page, acc) ==
    IF ii >= Len(ls) THEN acc
    ELSE IF ~IsMarkerLine(ls[ii + 1]) THEN ScanFrom(ls, ii + 1, page, acc)
    ELSE LET la == LookaheadFrom(ls, ii + 1, MarkerText(ls[ii + 1]))
             ct == CollapseWhitespace(la[2])
             rec == InlineRecord(Len(acc) + 1, page, MarkerAuthor(ls[ii + 1]), ct)
         IN  ScanFrom(ls, la[1], page,
                      IF LongEnough(ct) THEN Append(acc, rec) ELSE acc)

\* the scan of one page's text (lines 397-448)
ScanPage(t, page) == ScanFrom(Split(t, <<NL>>), 0, page, <<>>)

(***************************************************************************)
(* _parse_text_content                                                     *)
(***************************************************************************)
_parse_text_content(t) ==
    LET cleaned_text == _remove_inline_comments(t)
        sections == _split_into_sections(cleaned_text)
        blocks == [idx \in 1..Len(sections) |->
                     [id |-> idx,
                      type |-> _classify_content(sections[idx]),
                      text |-> Strip(sections[idx]),
                      line_count |-> Len(Split(sections[idx], <<NL>>))]]
    IN  SelectSeq(blocks, LAMBDA b : b.text # <<>>)

(***************************************************************************)
(* Native annotations.  An annotation reference either resolves to a       *)
(* dictionary (a function from its keys to their values) or raises while   *)
(* it is parsed; a page's /Annots array is readable or raises on access.   *)
(* A colour component is given in thousandths (1000 is 1.0).               *)
(***************************************************************************)
UnknownLit == <<"U","n","k","n","o","w","n">>

HexDigits == <<"0","1","2","3","4","5","6","7","8","9","a","b","c","d","e","f">>

\* f"{n:02x}" for 0 <= n <= 255
Hex2(n) == <<HexDigits[(n \div 16) + 1], HexDigits[(n % 16) + 1]>>

\* str(annot['/Subtype']).replace('/', '')
_get_annotation_type(annot) ==
    IF "/Subtype" \in DOMAIN annot
    THEN SelectSeq(annot["/Subtype"], LAMBDA c : c # "/")
    ELSE UnknownLit

_get_annotation_author(annot) ==
    IF "/T" \in DOMAIN annot THEN annot["/T"] ELSE UnknownLit

_get_annotation_text(annot) ==
    IF "/Contents" \in DOMAIN annot THEN annot["/Contents"] ELSE <<>>

_get_annotation_subject(annot) ==
    IF "/Subj" \in DOMAIN annot THEN annot["/Subj"] ELSE <<>>

\* int(c * 255) per component, formatted '#rrggbb'
_get_annotation_color(annot) ==
    IF "/C" \in DOMAIN annot /\ Len(annot["/C"]) = 3
    THEN LET color == annot["/C"]
         IN  <<"#">> \o Hex2((color[1] * 255) \div 1000)
                     \o Hex2((color[2] * 255) \div 1000)
                     \o Hex2((color[3] * 255) \div 1000)
    ELSE None

\* lines 317-325
AnnotationRecord(annot, idx, page) ==
    [id |-> idx,
     page |-> page,
     type |-> _get_annotation_type(annot),
     author |-> _get_annotation_author(annot),
     text |-> _get_annotation_text(annot),
     subject |-> _get_annotation_subject(annot),
     color |-> _get_annotation_color(annot)]

RECURSIVE AnnotationsAbortAtBad(_, _, _)
\* without the inner try: the first unparseable annotation ends the page's loop
AnnotationsAbortAtBad(refs, idx, page) ==
    IF idx > Len(refs) \/ ~refs[idx].resolves THEN <<>>
    ELSE LET annotation == AnnotationRecord(refs[idx].obj, idx, page)
             rest == AnnotationsAbortAtBad(refs, idx + 1, page)
         IN  IF annotation.text # <<>> \/ annotation.subject # <<>>
             THEN <<annotation>> \o rest
             ELSE rest

RECURSIVE AnnotationsFrom(_, _, _)
\* the loop of lines 311-333 from reference idx on: the records kept
AnnotationsFrom(refs, idx, page) ==
    IF idx > Len(refs) THEN <<>>
    ELSE IF ~refs[idx].resolves THEN AnnotationsFrom(refs, idx + 1, page)
    ELSE LET annotation == AnnotationRecord(refs[idx].obj, idx, page)
             rest == AnnotationsFrom(refs, idx + 1, page)
         IN  IF annotation.text # <<>> \/ annotation.subject # <<>>
             THEN <<annotation>> \o rest
             ELSE rest

\* the warnings of lines 332 and 336
RECURSIVE AnnotationWarnings(_, _, _)
AnnotationWarnings(refs, idx, page) ==
    IF idx > Len(refs) THEN <<>>
    ELSE (IF refs[idx].resolves THEN <<>>
          ELSE << <<"Warning: Could not parse annotation", idx, page>> >>)
         \o AnnotationWarnings(refs, idx + 1, page)

_get_page_annotations(page, page_n) ==
    IF ~page.annots.readable THEN <<>>
    ELSE AnnotationsFrom(page.annots.refs, 1, page_n)

PageWarnings(page, page_n) ==
    IF ~page.annots.readable
    THEN << <<"Warning: Could not access annotations", page_n>> >>
    ELSE AnnotationWarnings(page.annots.refs, 1, page_n)

(***************************************************************************)
(* Inputs of the pure-function specifications: concatenations of fragments *)
(***************************************************************************)
RECURSIVE Concat(_)
Concat(ss) == IF ss = <<>> THEN <<>> ELSE Head(ss) \o Concat(Tail(ss))

SeqsUpTo(S, n) == UNION {[1..k -> S] : k \in 0..n}

Idle ==
    /\ pdf = <<>> /\ OCR_AVAILABLE = FALSE /\ page_num = 0
    /\ requirements = <<>> /\ comments = <<>> /\ stderr = <<>>
    /\ lines = <<>> /\ i = 0 /\ j = 0 /\ author_tag = <<>>
    /\ comment_text = <<>> /\ inline_comments = <<>> /\ trace = <<>>

\* -------- CommentStripper inputs
StripMaxFrags == 4

StripFrags == { <<"C","o","m","m","e","n","t","e","d"," ">>,
                <<"[","A","K","1","]">>,
                <<":">>,
                <<"x">>,
                <<NL>> }

StripInputs == {Concat(ss) : ss \in SeqsUpTo(StripFrags, StripMaxFrags)}

InitStrip ==
    /\ pc = "call" /\ text \in StripInputs /\ result = <<>>
    /\ Idle

\* cleaned_text = self._remove_inline_comments(text)
StripCall ==
    /\ pc = "call"
    /\ result' = _remove_inline_comments(text)
    /\ pc' = "returned"
    /\ UNCHANGED <<pdf, OCR_AVAILABLE, page_num, requirements, comments, stderr,
                   text, lines, i, j, author_tag, comment_text, inline_comments,
                   trace>>

SpecStrip == InitStrip /\ [][StripCall]_vars

PureFrame ==
    UNCHANGED <<pdf, OCR_AVAILABLE, page_num, requirements, comments, stderr,
                text, lines, i, j, author_tag, comment_text, inline_comments,
                trace>>

Repeat(c, n) == [k \in 1..n |-> c]

\* -------- SectionSplitter inputs
SplitMaxFrags == 4

SplitFrags == { <<"A">>,
                <<"b">>,
                <<" ">>,
                <<NL>>,
                <<NL, NL>>,
                <<BULLET, " ">> }

SplitInputs == {Concat(ss) : ss \in SeqsUpTo(SplitFrags, SplitMaxFrags)}

InitSplit ==
    /\ pc = "call" /\ text \in SplitInputs /\ result = <<>>
    /\ Idle

\* sections = self._split_into_sections(cleaned_text)
SplitCall ==
    /\ pc = "call"
    /\ result' = _split_into_sections(text)
    /\ pc' = "returned"
    /\ PureFrame

SpecSplit == InitSplit /\ [][SplitCall]_vars

\* -------- SectionSplitter inputs with lines around the heading length limit
HeadingMaxFrags == 5

HeadingFrags == { <<"A">>,
                  <<"b">>,
                  <<NL>>,
                  <<NL, NL>>,
                  Repeat("y", HeadingTail) }

HeadingInputs == {Concat(ss) : ss \in SeqsUpTo(HeadingFrags, HeadingMaxFrags)}

InitHeading ==
    /\ pc = "call" /\ text \in HeadingInputs /\ result = <<>>
    /\ Idle

SpecHeading == InitHeading /\ [][SplitCall]_vars

\* -------- ContentClassifier inputs
ClassifyMaxFrags == 3

ClassifyFrags == { <<"A","B">>,
                   <<"x">>,
                   <<":">>,
                   <<TAB>>,
                   <<"|","|","|","|">>,
                   <<NL>>,
                   <<"F","i","e","l","d"," ","N","a","m","e">>,
                   <<"-"," ">>,
                   <<"1",".">>,
                   Repeat("A", HeadingMaxLen - 2) }

ClassifyInputs == {Concat(ss) : ss \in SeqsUpTo(ClassifyFrags, ClassifyMaxFrags)}

InitClassify ==
    /\ pc = "call" /\ text \in ClassifyInputs /\ result = ""
    /\ Idle

\* req_type = self._classify_content(section)
ClassifyCall ==
    /\ pc = "call"
    /\ result' = _classify_content(text)
    /\ pc' = "returned"
    /\ PureFrame

SpecClassify == InitClassify /\ [][ClassifyCall]_vars

(***************************************************************************)
(* _extract_inline_comments, one page, statement by statement              *)
(***************************************************************************)
ScanMaxLines == 4

RECURSIVE JoinLines(_)
\* '\n'.join(ls)
JoinLines(ls) ==
    IF ls = <<>> THEN <<>>
    ELSE IF Len(ls) = 1 THEN ls[1]
    ELSE ls[1] \o <<NL>> \o JoinLines(Tail(ls))

ExampleMarkerLine ==
    <<"C","o","m","m","e","n","t","e","d"," ","[","A","K","1","]",":"," ",
      "N","e","e","d"," ","c","l","a","r","i","t","y"," ","h","e","r","e"," ",
      "a","b","o","u","t"," ","s","c","o","p","e">>

ExampleBulletLine == <<BULLET," ","N","e","x","t"," ","i","t","e","m">>

ShortMarkerLine ==
    <<"C","o","m","m","e","n","t","e","d"," ","[","B","]",":"," ",
      "n","i","n","e","c","h","a","r","s">>

ScanLinePool == { ExampleMarkerLine,
                  ShortMarkerLine,
                  <<>>,
                  ExampleBulletLine,
                  <<"m","o","r","e"," "," ","t","e","x","t">>,
                  <<"N","a","m","e"," ">>,
                  <<"F","i","e","l","d"," ","N","a","m","e"," ","x">>,
                  <<"U","s","e","r"," ","S","t","o","r","y"," ","1">> }

ScanTexts == {JoinLines(ls) : ls \in SeqsUpTo(ScanLinePool, ScanMaxLines)}

\* One page whose annotations were stored as the empty list (line 283).
InitScan ==
    /\ pc = "page" /\ text \in ScanTexts /\ page_num = 1
    /\ comments = << <<>> >>
    /\ pdf = <<>> /\ OCR_AVAILABLE = FALSE /\ requirements = <<>> /\ stderr = <<>>
    /\ result = <<>>
    /\ lines = <<>> /\ i = 0 /\ j = 0 /\ author_tag = <<>>
    /\ comment_text = <<>> /\ inline_comments = <<>> /\ trace = <<>>

ScanFrame == UNCHANGED <<pdf, OCR_AVAILABLE, page_num, requirements, stderr,
                         text, result>>

\* lines 391-400: text = page.extract_text(); if not text: continue
BeginPage ==
    /\ pc = "page"
    /\ IF text = <<>>
       THEN /\ pc' = "scanned"
            /\ UNCHANGED <<lines, i, inline_comments>>
       ELSE /\ lines' = Split(text, <<NL>>)
            /\ inline_comments' = <<>>
            /\ i' = 0
            /\ pc' = "scan"
    /\ UNCHANGED <<j, author_tag, comment_text, comments, trace>>
    /\ ScanFrame

\* lines 401-413 and 447-448: one iteration of the outer loop up to the
\* lookahead, or the whole iteration for a line that is no marker
ScanLine ==
    /\ pc = "scan"
    /\ i < Len(lines)
    /\ trace' = Append(trace, <<"match", i>>)
    /\ IF IsMarkerLine(lines[i + 1])
       THEN /\ author_tag' = MarkerAuthor(lines[i + 1])
            /\ comment_text' = MarkerText(lines[i + 1])
            /\ j' = i + 1
            /\ pc' = "lookahead"
            /\ UNCHANGED i
       ELSE /\ i' = i + 1
            /\ UNCHANGED <<author_tag, comment_text, j, pc>>
    /\ UNCHANGED <<lines, inline_comments, comments>>
    /\ ScanFrame

\* lines 414-428: one test of the inner loop's condition and one iteration
LookaheadLine ==
    /\ pc = "lookahead"
    /\ IF j < Len(lines) /\ ~StopsLookahead(lines, j)
          /\ IsContinuation(Strip(lines[j + 1]))
       THEN /\ comment_text' = comment_text \o <<" ">> \o Strip(lines[j + 1])
            /\ trace' = Append(trace, <<"append", j>>)
            /\ j' = j + 1
            /\ UNCHANGED pc
       ELSE /\ pc' = "emit"
            /\ UNCHANGED <<comment_text, trace, j>>
    /\ UNCHANGED <<lines, i, author_tag, inline_comments, comments>>
    /\ ScanFrame

\* the emit step without `i = j`: the outer index stays on the marker line
EmitCommentNoResume ==
    /\ pc = "emit"
    /\ LET ct == CollapseWhitespace(comment_text)
       IN  /\ comment_text' = ct
           /\ inline_comments' =
                IF LongEnough(ct)
                THEN Append(inline_comments,
                            InlineRecord(Len(inline_comments) + 1, page_num,
                                         author_tag, ct))
                ELSE inline_comments
    /\ pc' = "scan"
    /\ UNCHANGED <<lines, i, j, author_tag, comments, trace>>
    /\ ScanFrame

\* lines 430-446: clean up, emit if long enough, resume at j
EmitComment ==
    /\ pc = "emit"
    /\ LET ct == CollapseWhitespace(comment_text)
       IN  /\ comment_text' = ct
           /\ inline_comments' =
                IF LongEnough(ct)
                THEN Append(inline_comments,
                            InlineRecord(Len(inline_comments) + 1, page_num,
                                         author_tag, ct))
                ELSE inline_comments
    /\ i' = j
    /\ pc' = "scan"
    /\ UNCHANGED <<lines, j, author_tag, comments, trace>>
    /\ ScanFrame

\* the store with the inline comments put before what is there
StoreInlineFirst(cm, page, recs) ==
    LET base == IF page \in DOMAIN cm THEN cm[page] ELSE <<>>
    IN  [k \in DOMAIN cm \cup {page} |->
            IF k = page THEN recs \o base ELSE cm[k]]

\* lines 450-456: store the page's inline comments after what is there
StoreInline(cm, page, recs) ==
    LET base == IF page \in DOMAIN cm THEN cm[page] ELSE <<>>
    IN  [k \in DOMAIN cm \cup {page} |->
            IF k = page THEN base \o recs ELSE cm[k]]

StorePage ==
    /\ pc = "scan"
    /\ i >= Len(lines)
    /\ comments' = StoreInline(comments, page_num, inline_comments)
    /\ pc' = "scanned"
    /\ UNCHANGED <<lines, i, j, author_tag, comment_text, inline_comments, trace>>
    /\ ScanFrame

NextScan == BeginPage \/ ScanLine \/ LookaheadLine \/ EmitComment \/ StorePage

SpecScan == InitScan /\ [][NextScan]_vars

\* The statement-level scan and the scan as one function agree.
ScanAgrees == pc = "scanned" => comments[1] = ScanPage(text, 1)

(***************************************************************************)
(* parse(): _extract_requirements, _extract_annotations,                   *)
(* _extract_inline_comments over the pages of one document                 *)
(***************************************************************************)
MaxPages == 3

CommentedPageText ==
    <<"S","c","o","p","e",":",NL,
      "C","o","m","m","e","n","t","e","d"," ","[","A","K","1","]",":"," ",
      "c","l","a","r","i","f","y"," ","s","c","o","p","e",NL,
      NL,
      BULLET," ","I","t","e","m">>

PlainPageText == <<"T","I","T","L","E",NL,NL,"B","o","d","y"," ","t","e","x","t">>

ScannedText == <<"S","C","A","N">>

NoteAnnot ==
    [resolves |-> TRUE,
     obj |-> ("/Subtype" :> <<"/","T","e","x","t">>) @@ ("/T" :> <<"a","l">>)
             @@ ("/Contents" :> <<"f","i","x">>) @@ ("/C" :> <<1000, 500, 0>>)]

SubjectAnnot ==
    [resolves |-> TRUE,
     obj |-> ("/Subtype" :> <<"/","H","i","g","h","l","i","g","h","t">>)
             @@ ("/Subj" :> <<"N","o","t","e">>)]

EmptyAnnot == [resolves |-> TRUE, obj |-> ("/Subtype" :> <<"/","L","i","n","k">>)]

BadAnnot == [resolves |-> FALSE, obj |-> <<>>]

NoAnnots == [readable |-> TRUE, refs |-> <<>>]

PagePool ==
    { [text |-> CommentedPageText, ocr |-> <<>>,
       annots |-> [readable |-> TRUE, refs |-> <<NoteAnnot>>]],
      [text |-> PlainPageText, ocr |-> <<>>,
       annots |-> [readable |-> TRUE, refs |-> <<EmptyAnnot, NoteAnnot>>]],
      [text |-> CommentedPageText, ocr |-> <<>>,
       annots |-> [readable |-> FALSE, refs |-> <<NoteAnnot>>]],
      [text |-> PlainPageText, ocr |-> <<>>,
       annots |-> [readable |-> TRUE, refs |-> <<BadAnnot, SubjectAnnot, NoteAnnot>>]],
      [text |-> <<>>, ocr |-> <<>>, annots |-> NoAnnots],
      [text |-> <<>>, ocr |-> ScannedText,
       annots |-> [readable |-> TRUE, refs |-> <<NoteAnnot>>]],
      [text |-> <<" ">>, ocr |-> <<>>, annots |-> NoAnnots] }

\* self.requirements = {}; self.comments = {} (lines 49-50), parse() entered
Init ==
    /\ pdf \in SeqsUpTo(PagePool, MaxPages)
    /\ OCR_AVAILABLE \in BOOLEAN
    /\ pc = "requirements" /\ page_num = 1
    /\ requirements = <<>> /\ comments = <<>> /\ stderr = <<>>
    /\ text = <<>> /\ result = <<>>
    /\ lines = <<>> /\ i = 0 /\ j = 0 /\ author_tag = <<>>
    /\ comment_text = <<>> /\ inline_comments = <<>> /\ trace = <<>>

ScanLocals == <<text, result, lines, i, j, author_tag, comment_text,
                inline_comments, trace>>

\* d[key] = value
Put(d, key, value) ==
    [k \in DOMAIN d \cup {key} |-> IF k = key THEN value ELSE d[k]]

\* _perform_ocr(page_num): the recognised text, stripped, or ''
_perform_ocr(page) == IF OCR_AVAILABLE THEN Strip(page.ocr) ELSE <<>>

\* lines 81-104 with the assignments to a page without text left out
PageRequirementsSkipEmpty(reqs, page, page_n) ==
    IF Strip(page.text) # <<>>
    THEN Put(reqs, page_n, _parse_text_content(page.text))
    ELSE reqs

\* lines 81-104: the body of the page loop of _extract_requirements
PageRequirements(reqs, page, page_n) ==
    IF Strip(page.text) # <<>>
    THEN Put(reqs, page_n, _parse_text_content(page.text))
    ELSE IF OCR_AVAILABLE
         THEN LET ocr_text == _perform_ocr(page)
              IN  IF ocr_text # <<>>
                  THEN Put(reqs, page_n, _parse_text_content(ocr_text))
                  ELSE Put(reqs, page_n, <<>>)
         ELSE Put(reqs, page_n, <<>>)

RequirementsPage ==
    /\ pc = "requirements"
    /\ page_num <= Len(pdf)
    /\ requirements' = PageRequirements(requirements, pdf[page_num], page_num)
    /\ page_num' = page_num + 1
    /\ UNCHANGED <<pc, pdf, OCR_AVAILABLE, comments, stderr, ScanLocals>>

\* lines 106-108: opening the file or extracting a page's text raises; the
\* exception is reported and raised again, parse() does not return
RequirementsRaise ==
    /\ pc = "requirements"
    /\ page_num <= Len(pdf)
    /\ stderr' = Append(stderr, <<"Error extracting requirements">>)
    /\ pc' = "raised"
    /\ UNCHANGED <<pdf, OCR_AVAILABLE, page_num, requirements, comments, ScanLocals>>

RequirementsDone ==
    /\ pc = "requirements"
    /\ page_num > Len(pdf)
    /\ pc' = "annotations"
    /\ page_num' = 1
    /\ UNCHANGED <<pdf, OCR_AVAILABLE, requirements, comments, stderr, ScanLocals>>

\* lines 269-270 raise (open, PdfReader): lines 285-287, nothing is stored
AnnotationsOpenRaise ==
    /\ pc = "annotations"
    /\ page_num = 1
    /\ stderr' = Append(stderr, <<"Error extracting annotations">>)
    /\ pc' = "inline"
    /\ UNCHANGED <<pdf, OCR_AVAILABLE, page_num, requirements, comments, ScanLocals>>

\* lines 272-283: one page of _extract_annotations
AnnotationsPage ==
    /\ pc = "annotations"
    /\ page_num <= Len(pdf)
    /\ comments' = Put(comments, page_num,
                       _get_page_annotations(pdf[page_num], page_num))
    /\ stderr' = stderr \o PageWarnings(pdf[page_num], page_num)
    /\ page_num' = page_num + 1
    /\ UNCHANGED <<pc, pdf, OCR_AVAILABLE, requirements, ScanLocals>>

AnnotationsDone ==
    /\ pc = "annotations"
    /\ page_num > Len(pdf)
    /\ pc' = "inline"
    /\ page_num' = 1
    /\ UNCHANGED <<pdf, OCR_AVAILABLE, requirements, comments, stderr, ScanLocals>>

\* lines 387-456: one page of _extract_inline_comments
InlinePage ==
    /\ pc = "inline"
    /\ page_num <= Len(pdf)
    /\ comments' = IF pdf[page_num].text = <<>>
                   THEN comments
                   ELSE StoreInline(comments, page_num,
                                    ScanPage(pdf[page_num].text, page_num))
    /\ page_num' = page_num + 1
    /\ UNCHANGED <<pc, pdf, OCR_AVAILABLE, requirements, stderr, ScanLocals>>

\* lines 458-461: opening the file or extracting the text of page page_num
\* raises; the one try around the page loop ends the method, page_num stays
InlineRaise ==
    /\ pc = "inline"
    /\ page_num <= Len(pdf)
    /\ stderr' = Append(stderr, <<"Error extracting inline comments">>)
    /\ pc' = "done"
    /\ UNCHANGED <<pdf, OCR_AVAILABLE, page_num, requirements, comments, ScanLocals>>

\* line 70: return self.requirements, self.comments
InlineDone ==
    /\ pc = "inline"
    /\ page_num > Len(pdf)
    /\ pc' = "done"
    /\ UNCHANGED <<pdf, OCR_AVAILABLE, page_num, requirements, comments, stderr,
                   ScanLocals>>

Next ==
    \/ RequirementsPage \/ RequirementsRaise \/ RequirementsDone
    \/ AnnotationsOpenRaise \/ AnnotationsPage \/ AnnotationsDone
    \/ InlinePage \/ InlineRaise \/ InlineDone

Spec == Init /\ [][Next]_vars

\* C1: for every input text, the text returned by _remove_inline_comments
\* contains no substring matching the marker pattern 'Commented [<identifier>]',
\* also when removing one marker joins the text on both sides of it.
C1_NoMarkerLeft == pc = "returned" => ~HasMarker(result)

\* The first non-blank line of the section under classification, untrimmed.
FirstNonBlankLine == NonBlankLines(text)[1]

\* C8: _classify_content answers by the first matching rule: every section
\* whose first non-blank line is shorter than 100 characters and entirely
\* upper-case is a heading, also when the section holds a tab, more than 3
\* pipes or a field keyword (rules that come later in the cascade).
C8_UpperFirstLineIsHeading ==
    (/\ pc = "returned"
     /\ NonBlankLines(text) # <<>>
     /\ Len(FirstNonBlankLine) < HeadingMaxLen
     /\ IsUpper(FirstNonBlankLine))
    => result = "heading"

\* C8 witness: an upper-case first line in a section that also satisfies the
\* table rule (a tab and more than 3 pipes) was classified as a heading.
C8_Witness ==
    /\ pc = "returned"
    /\ NonBlankLines(text) # <<>>
    /\ IsUpper(FirstNonBlankLine)
    /\ \E k \in 1..Len(text) : text[k] = TAB
    /\ Count(text, "|") > PipeLimit
    /\ result = "heading"

Trimmed(s) == s # <<>> /\ Strip(s) = s

\* C9 as stated: for every non-empty input text, whitespace-only text
\* included, _split_into_sections returns a non-empty sequence of non-empty
\* sections without leading or trailing whitespace.
C9_Original ==
    (pc = "returned" /\ text # <<>>)
    => (result # <<>> /\ \A k \in 1..Len(result) : Trimmed(result[k]))

\* C9 amended: the result is never empty; when the text holds a character
\* that is not whitespace every section is non-empty and trimmed; a text of
\* whitespace only comes back unchanged as the single section.
C9_Amended ==
    pc = "returned"
    => /\ result # <<>>
       /\ Strip(text) # <<>> => \A k \in 1..Len(result) : Trimmed(result[k])
       /\ Strip(text) = <<>> => result = <<text>>

\* C9 witness: a text that starts with whitespace was split into several
\* sections, each of them trimmed.
C9_Witness ==
    /\ pc = "returned"
    /\ Len(text) > 0 /\ text[1] \in Whitespace
    /\ Len(result) >= 2
    /\ \A k \in 1..Len(result) : Trimmed(result[k])

\* The structural-prefix literals C6 names.
C6_Prefixes == { <<BULLET>>, <<SQUARE>>, <<"o"," ">>,
                 <<"F","i","e","l","d"," ","N","a","m","e">>,
                 <<"N","a","m","e"," ">>,
                 <<"I","s"," ","A","c","t","i","v","e">> }

C6_StartsStructure(l) ==
    StartsWith(l, CommentedLit) \/ StartsWithAny(l, C6_Prefixes)

C6_BulletOrField(l) ==
    StartsWithAny(l, { <<BULLET>>, <<"F","i","e","l","d">> })

\* the line itself, as it stands in the text, is a stop line
C6_StopRaw(ls, jj) ==
    \/ C6_StartsStructure(ls[jj + 1])
    \/ /\ Strip(ls[jj + 1]) = <<>>
       /\ jj + 1 < Len(ls)
       /\ C6_BulletOrField(ls[jj + 2])

\* the line with its surrounding whitespace trimmed is a stop line
C6_StopTrimmed(ls, jj) ==
    \/ C6_StartsStructure(Strip(ls[jj + 1]))
    \/ /\ Strip(ls[jj + 1]) = <<>>
       /\ jj + 1 < Len(ls)
       /\ C6_BulletOrField(Strip(ls[jj + 2]))

ExampleText == JoinLines(<<ExampleMarkerLine, <<>>, ExampleBulletLine>>)

ExampleRecord ==
    [id |-> 1, page |-> 1,
     type |-> <<"I","n","l","i","n","e","C","o","m","m","e","n","t">>,
     author |-> <<"A","K","1">>,
     text |-> <<"N","e","e","d"," ","c","l","a","r","i","t","y"," ",
                "h","e","r","e"," ","a","b","o","u","t"," ","s","c","o","p","e">>,
     subject |-> <<"W","o","r","d"," ","C","o","m","m","e","n","t">>,
     color |-> <<"None">>]

\* A stop line is left alone by the lookahead, the outer scan resumes at j,
\* and the example text yields exactly the one AK1 record.
C6_Step(Stop(_, _)) ==
    /\ (pc = "lookahead" /\ j < Len(lines) /\ Stop(lines, j))
         => (comment_text' = comment_text /\ j' = j /\ pc' = "emit")
    /\ pc = "emit" => i' = j
    /\ (pc' = "scanned" /\ text = ExampleText)
         => (comments'[1] = <<ExampleRecord>>
             /\ \A k \in 1..Len(trace') : trace'[k][1] # "append")

\* C6 as stated: in the lookahead a line that starts a new marker or starts
\* with a structural prefix, or a blank line followed by a bullet/'Field'
\* line, is never appended to the comment, and the outer scan resumes at it;
\* the AK1 example yields exactly one record.
C6_Original == [][C6_Step(C6_StopRaw)]_vars

\* C6 amended: the same, for a line that starts a marker or a structural
\* prefix once its surrounding whitespace is trimmed (the scanner tests
\* lines[j].strip()).
C6_Amended == [][C6_Step(C6_StopTrimmed)]_vars

\* C6 witness: the example text was scanned to its end with one record, the
\* lookahead having stopped at the blank line before the bullet.
C6_Witness ==
    /\ pc = "scanned"
    /\ text = ExampleText
    /\ Len(comments[1]) = 1
    /\ trace = << <<"match", 0>>, <<"match", 1>>, <<"match", 2>> >>

\* C7: the scanner emits a record for a matched marker if and only if the
\* whitespace-collapsed comment text has length at least 10, and no other
\* step emits one; a marker line followed by end of text whose trailing text
\* is shorter than 10 characters yields zero records.
C7_EmitIffLongEnough ==
    [][ /\ pc = "emit" =>
             IF Len(CollapseWhitespace(comment_text)) >= 10
             THEN /\ Len(inline_comments') = Len(inline_comments) + 1
                  /\ SubSeq(inline_comments', 1, Len(inline_comments)) = inline_comments
                  /\ inline_comments'[Len(inline_comments')].text
                       = CollapseWhitespace(comment_text)
             ELSE inline_comments' = inline_comments
        /\ pc # "emit" => inline_comments' = inline_comments
        /\ (/\ pc' = "scanned"
            /\ Len(lines') = 1
            /\ IsMarkerLine(lines'[1])
            /\ Len(MarkerText(lines'[1])) < 10)
             => comments'[1] = <<>>
      ]_vars

\* C7 witness: of two marker lines the first (long text) was emitted and the
\* second (nine characters, then end of text) was dropped.
C7_Witness ==
    /\ pc = "scanned"
    /\ lines = <<ExampleMarkerLine, ShortMarkerLine>>
    /\ Len(comments[1]) = 1
    /\ comments[1][1].author = <<"A","K","1">>

IsInline(r) == r.type = InlineCommentType

\* the inline-comment records of page p in the comments map cm
InlineOf(cm, p) ==
    IF p \in DOMAIN cm THEN SelectSeq(cm[p], IsInline) ELSE <<>>

\* the native-annotation records of page p in the comments map cm
NativeOf(cm, p) ==
    IF p \in DOMAIN cm THEN SelectSeq(cm[p], LAMBDA r : ~IsInline(r)) ELSE <<>>

\* _extract_annotations opened the document (no document-level failure)
AnnotationsOpened ==
    \A k \in 1..Len(stderr) : stderr[k] # <<"Error extracting annotations">>

AnnotationsOpenedNext ==
    \A k \in 1..Len(stderr') : stderr'[k] # <<"Error extracting annotations">>

\* C2: whenever parse() returns for a document of N pages, the comments map
\* has the key of every page 1..N, whatever happened during annotation
\* extraction and whether or not the page has text.
C2_EveryPageKeyed == pc = "done" => DOMAIN comments = 1..Len(pdf)

\* C3: after _extract_requirements the requirements map has exactly the
\* keys 1..N, and a page whose text is empty or whitespace-only, with OCR
\* unavailable or returning nothing, is mapped to the empty list.
C3_RequirementsComplete ==
    pc \in {"annotations", "inline", "done"}
    => /\ DOMAIN requirements = 1..Len(pdf)
       /\ \A p \in 1..Len(pdf) :
            (/\ Strip(pdf[p].text) = <<>>
             /\ (~OCR_AVAILABLE \/ Strip(pdf[p].ocr) = <<>>))
            => requirements[p] = <<>>

\* C3 witness: three pages, no OCR, the middle page without text: keys
\* 1, 2, 3 with page 2 empty.
C3_Witness ==
    /\ pc = "annotations"
    /\ Len(pdf) = 3
    /\ ~OCR_AVAILABLE
    /\ pdf[2].text = <<>>
    /\ requirements[1] # <<>> /\ requirements[2] = <<>> /\ requirements[3] # <<>>

\* C4: a failure in the inline scan of one page (the page page_num is left
\* at) is recovered page by page: parse() returns, the failing page has no
\* inline comments, every other page has exactly the inline comments of
\* its own scan.
C4_PageGranularity ==
    pc = "done"
    => \A p \in 1..Len(pdf) :
         InlineOf(comments, p) =
           IF p = page_num THEN <<>> ELSE ScanPage(pdf[p].text, p)

\* the annotations of a page that C5 expects to be kept: none when the
\* page's array cannot be read, else those that parse and have content
C5_Kept(page, p) ==
    LET refs == page.annots.refs
        HasContent(obj) ==
            \/ "/Contents" \in DOMAIN obj /\ obj["/Contents"] # <<>>
            \/ "/Subj" \in DOMAIN obj /\ obj["/Subj"] # <<>>
        keep == SelectSeq([k \in 1..Len(refs) |-> k],
                          LAMBDA k : refs[k].resolves /\ HasContent(refs[k].obj))
    IN  IF ~page.annots.readable THEN <<>>
        ELSE [n \in 1..Len(keep) |-> AnnotationRecord(refs[keep[n]].obj, keep[n], p)]

\* C5: a failure reading one page's annotations or parsing one annotation
\* never aborts the run: the annotation phase leaves the requirements map
\* unchanged and goes on to the next page or phase, each page step stores
\* that page's parseable annotations and touches no other page, and at the
\* return every page holds its parseable annotations.
C5_BestEffortAnnotations ==
    [][ /\ pc = "annotations"
          => (requirements' = requirements /\ pc' \in {"annotations", "inline"})
        /\ (pc = "annotations" /\ page_num' = page_num + 1)
          => /\ NativeOf(comments', page_num) = C5_Kept(pdf[page_num], page_num)
             /\ \A q \in DOMAIN comments \ {page_num} : comments'[q] = comments[q]
        /\ (pc' = "done" /\ AnnotationsOpenedNext)
          => \A p \in 1..Len(pdf) :
               NativeOf(comments', p) = C5_Kept(pdf[p], p)
      ]_vars

\* C5 witness: page 1 has an unparseable annotation, page 2's array cannot
\* be read, and parse() returned with the other annotations of page 1 and
\* those of page 3.
C5_Witness ==
    /\ pc = "done"
    /\ AnnotationsOpened
    /\ Len(pdf) = 3
    /\ pdf[1].annots.readable
    /\ Len(pdf[1].annots.refs) = 3 /\ ~pdf[1].annots.refs[1].resolves
    /\ ~pdf[2].annots.readable
    /\ Len(NativeOf(comments, 1)) = 2
    /\ NativeOf(comments, 2) = <<>>
    /\ Len(NativeOf(comments, 3)) = 1

\* C10: after parse() returns, every page's comment list is its native
\* annotation records followed by its inline-comment records: no inline
\* record precedes a native one; for a page whose annotations and inline
\* scan both completed the list is exactly the kept annotations in
\* annotation order followed by the scan's records in scan order.
C10_NativeThenInline ==
    pc = "done"
    => \A p \in DOMAIN comments :
         /\ \A a, b \in 1..Len(comments[p]) :
              a < b => ~(IsInline(comments[p][a]) /\ ~IsInline(comments[p][b]))
         /\ (AnnotationsOpened /\ p < page_num)
              => comments[p] = C5_Kept(pdf[p], p) \o ScanPage(pdf[p].text, p)

\* C10 witness: a returned page list whose first record is a native
\* annotation and whose last record is an inline comment.
C10_Witness ==
    /\ pc = "done"
    /\ \E p \in DOMAIN comments :
         /\ Len(comments[p]) >= 2
         /\ ~IsInline(comments[p][1])
         /\ IsInline(comments[p][Len(comments[p])])

\* C11: the ids of the native-annotation records kept for a page are
\* 1, 2, ..., k in list order, k the number of kept records, whichever
\* annotations were kept, dropped as empty or skipped as unparseable.
C11_DenseAnnotationIds ==
    pc \in {"inline", "done"}
    => \A p \in DOMAIN comments :
         \A n \in 1..Len(NativeOf(comments, p)) :
           NativeOf(comments, p)[n].id = n

\* C13: the cascade of _split_into_sections never returns fewer sections
\* than its first tier (the split on blank lines) produced: falling through
\* to the bullet tier or the heading tier loses no blank-line boundary.
C13_NotFewerThanTier1 ==
    pc = "returned" => Len(result) >= Len(StripNonEmpty(Split(text, <<NL, NL>>)))

\* The third tier applies: neither the blank-line split nor the bullet
\* split gave more than two sections.
C12_ThirdTierApplies ==
    /\ Len(StripNonEmpty(Split(text, <<NL, NL>>))) <= 2
    /\ Len(StripNonEmpty(SplitBefore(text, BulletCuts(text)))) <= 2

\* Starts of the lines of t that begin with an uppercase letter and hold at
\* most n characters in total.
C12_HeadingLines(t, n) ==
    {p \in 1..Len(t) : /\ LineStart(t, p)
                       /\ t[p] \in UpperChars
                       /\ LineEnd(t, p) - p <= n}

\* The result is the text cut before some of the lines in P only.
C12_CutOnlyAt(P) ==
    \E Q \in SUBSET P :
        LET secs == StripNonEmpty(SplitBefore(text, Q))
        IN  result = IF secs # <<>> THEN secs ELSE <<text>>

\* C12 as stated: when the third tier applies, a section boundary is placed
\* before a line only if the line starts with an uppercase letter and is at
\* most 80 characters long in total; none before a line of 81 or more.
C12_Original ==
    (pc = "returned" /\ C12_ThirdTierApplies)
    => C12_CutOnlyAt(C12_HeadingLines(text, 80))

\* C12 amended: when the third tier applies, a section boundary is placed
\* before a line only if the line starts with an uppercase letter and is at
\* most 81 characters long in total (the capital and up to 80 more); none
\* before a line of 82 or more.
C12_Amended ==
    (pc = "returned" /\ C12_ThirdTierApplies)
    => C12_CutOnlyAt(C12_HeadingLines(text, 81))

\* C12 witness: the third tier applied and cut the text before a line of
\* exactly 81 characters that starts with an uppercase letter.
C12_Witness ==
    /\ pc = "returned"
    /\ C12_ThirdTierApplies
    /\ Len(result) = 2
    /\ Len(result[2]) = 81
    /\ result[2][1] \in UpperChars
    /\ \E p \in 2..Len(text) :
         /\ LineStart(text, p)
         /\ LineEnd(text, p) - p = 81
         /\ SubSeq(text, p, p + 80) = result[2]

\* The 0-based line indices the trace records for one kind of event, in the
\* order the events happened.
C14_Indices(kind) ==
    LET ev == SelectSeq(trace, LAMBDA e : e[1] = kind)
    IN  [k \in 1..Len(ev) |-> ev[k][2]]

C14_StrictlyIncreasing(s) ==
    \A a, b \in 1..Len(s) : a < b => s[a] < s[b]

\* What is left of the scan: lines not yet passed by the outer index (by the
\* lookahead index inside an iteration) and the steps left in the iteration.
C14_Variant ==
    CASE pc = "page"      -> 4 * (Len(text) + 1) + 2
      [] pc = "scan"      -> 4 * (Len(lines) - i) + 1
      [] pc = "lookahead" -> 4 * (Len(lines) - j) + 3
      [] pc = "emit"      -> 4 * (Len(lines) - j) + 2
      [] OTHER            -> 0

\* The scan is at a position of its loops where the next step is defined:
\* the outer index is within 0..len(lines), the lookahead index within
\* i+1..len(lines).
C14_CanStep ==
    \/ pc = "page"
    \/ pc = "scan" /\ i \in 0..Len(lines)
    \/ pc \in {"lookahead", "emit"} /\ i \in 0..(Len(lines) - 1)
                                    /\ j \in (i + 1)..Len(lines)

C14_Progress ==
    /\ C14_Variant \in Nat
    /\ pc # "scanned" => C14_CanStep
    /\ C14_StrictlyIncreasing(C14_Indices("match"))
    /\ C14_StrictlyIncreasing(C14_Indices("append"))

\* C14: the scan of a page's lines terminates (a natural-number measure
\* falls with every step and the scan is never stuck before its end); the
\* outer index strictly increases with every iteration, by 1 on a line that
\* is no marker and to j >= i + 1 after a marker; every line is examined as
\* a marker start at most once and appended as a continuation line to at
\* most one comment record.
C14_ScanTerminates ==
    [][ /\ C14_Progress /\ C14_Progress'
        /\ C14_Variant' < C14_Variant
        /\ (pc = "scan" /\ pc' = "scan") => i' = i + 1
        /\ pc = "emit" => (i' = j /\ j >= i + 1)
        /\ i' >= i ]_vars

\* C14 witness: a finished scan of at least three lines in which line 0
\* was a marker, line 1 was appended to its comment and never examined as a
\* marker start, and the outer loop resumed at line 2.
C14_Witness ==
    /\ pc = "scanned"
    /\ Len(lines) >= 3
    /\ Len(C14_Indices("match")) >= 2
    /\ C14_Indices("match")[1] = 0
    /\ C14_Indices("match")[2] = 2
    /\ C14_Indices("append") = <<1>>
    /\ Len(comments[1]) >= 1

====
